---- MODULE Spec2Model ----
(***************************************************************************)
(* nacme: an ACMEv2 client.  One Client instance (src/client.ts) owns an   *)
(* HttpClient (src/http.ts) and an AcmeApi (src/api.ts).  Client methods   *)
(* are async functions: several may be running at once, each suspended at  *)
(* an HTTP exchange.  A task of the model is one running Client method; a  *)
(* step of the model is what the event loop runs without suspending at the *)
(* network: it starts with a method call or with the arrival of the        *)
(* response a task waits for, and it ends when that task has dispatched    *)
(* its next HTTP request, or has settled.                                  *)
(***************************************************************************)
EXTENDS Integers, Sequences, FiniteSets, TLC

\* ------------------------------------------------------------ bounds
\* Client methods called over the lifetime of the client.
MaxOps == 3
\* How often one createAccount/updateAccount call may be answered
\* "200 without Location" by newAccount (each answer makes it post again).
MaxRounds == 2
\* Authorization URLs of an order.
MaxAuthorizations == 2
\* Client methods called when the caller does not await them.
MaxConcurrentOps == 2
\* The largest `attempts` option tried besides the default.
MaxAttempts == 3

\* ------------------------------------------------------------ defaults
\* retry(fn, { attempts = 5, ... })
DefaultAttempts == 5
\* defaultOpts.backoffAttempts
DefaultBackoffAttempts == 5

\* ------------------------------------------------------------ values
Procs == {"t1", "t2"}

\* Account private keys (PEM) and what forge reads from them.
Keys == {"key1", "key2"}
InitialKey == "key1"

getPublicExponent(key) == "AQAB"

getModulus(key) == IF key = "key1" THEN "mod1" ELSE "mod2"

\* helper.b64encode of a buffer: the text of the base64url encoding.
b64encode(buf) == <<"b64", buf>>

NoJwk == [e |-> <<>>, kty |-> "", n |-> <<>>]

\* The server names the account of this client by one URL.
ServerAccountUrl == "/acct/1"
\* opts.accountUrl: absent, the account's URL, or a URL the server does not know.
ConfiguredAccountUrls == {"", ServerAccountUrl, "/acct/9"}

OrderUrl == "/order/1"

\* The directory resources an ACME server publishes.
Resources == {"newNonce", "newAccount", "newOrder", "revokeCert", "keyChange"}

\* this.directory: undefined until fetched; afterwards the body of the
\* directory response, whatever its status was.
NoDirectory == [loaded |-> FALSE, res |-> [r \in Resources |-> ""]]
FullDirectory == [loaded |-> TRUE, res |-> [r \in Resources |-> "/dir/" \o r]]
\* The body of an error response (a problem document): an object with none
\* of the resources.
ProblemBody == [loaded |-> TRUE, res |-> [r \in Resources |-> ""]]

DirectoryBodies == {FullDirectory, ProblemBody}

\* Responses to signed and unsigned ACME requests: status and, for a
\* problem document, its type.
Responses ==
  { [status |-> 200, type |-> ""],
    [status |-> 201, type |-> ""],
    [status |-> 202, type |-> ""],
    [status |-> 400, type |-> "urn:ietf:params:acme:error:badNonce"],
    [status |-> 400, type |-> "urn:ietf:params:acme:error:malformed"] }

BadNonce == [status |-> 400, type |-> "urn:ietf:params:acme:error:badNonce"]

\* ------------------------------------------------------------ JWS
NoHeader == [alg |-> "", url |-> "", nonce |-> 0, kid |-> "", jwk |-> NoJwk]
NoBody == [protected |-> NoHeader, payload |-> [tag |-> ""], signedBy |-> ""]
NoPayload == [tag |-> ""]

\* ------------------------------------------------------------ state
VARIABLES
  client,     \* the Client: which HttpClient / AcmeApi instance this.http / this.api is
  http,       \* the HttpClient instances constructed so far
  api,        \* the AcmeApi instances constructed so far
  task,       \* the running Client methods, one per task
  ops,        \* Client methods called so far
  nonces,     \* server: the Replay-Nonce values issued so far, 1..Len(nonces);
              \* per nonce the request whose response carried it, the task
              \* that received it and how many dispatched signed requests
              \* held it
  concurrent, \* whether the caller calls a Client method while another is
              \* still running (it awaits each call otherwise)
  poll,       \* one helper.retry call: by itself, or made by waitForValidStatus
  last        \* the step just taken: its task as the step found it (as the
              \* call made it, for a call), the response it consumed and,
              \* when the Client method settled in it, how it settled
              \* (data: the url members of the list it resolved with)
  ,
  run,        \* one call of auto: its options, the authorizations of its
              \* order and how far the handling of each has come
  read        \* one CSR or certificate and what the two crypto backends
              \* have read from it

vars == <<client, http, api, task, ops, nonces, concurrent, poll, last, run, read>>

\* An HttpClient: its fields, and the directory GETs it has sent (gets).
NoHttpClient == [accountKey |-> "", directory |-> NoDirectory, jwk |-> NoJwk, gets |-> 0]
NoOutcome == [res |-> "none", from |-> "", url |-> ""]
\* A response: the request it answers (to), its status, the type of its
\* problem document, its Location and Replay-Nonce headers ("" and 0: none).
NoResponse == [to |-> "", status |-> 0, type |-> "", location |-> "", replayNonce |-> 0]

Idle ==
  [ pc |-> "idle", cop |-> "", aop |-> "", api |-> 0, hx |-> 0, stage |-> "",
    method |-> "", url |-> "", resource |-> "", jwsKid |-> FALSE, kid |-> "",
    valid |-> {}, payload |-> NoPayload, req |-> NoBody, sends |-> 0,
    rounds |-> 0, newHttpClient |-> NoHttpClient, accountUrl |-> "",
    hadUrl |-> FALSE, urls |-> << >>, got |-> << >> ]


\* ------------------------------------------------------------ settling
\* A Client method settles: st.out tells how, and the task is free again.

\* The Client method's promise resolves with resp.data of the `from` request
\* (and data.url = url where the method adds it).
Resolve(st, from, url) ==
  [st EXCEPT !.t = Idle, !.out = [res |-> "ok", from |-> from, url |-> url]]

\* An Error is thrown and no Client method of the model catches it.
Throw(st) ==
  [st EXCEPT !.t = Idle, !.out = [res |-> "err", from |-> "", url |-> ""]]

\* ------------------------------------------------------------ HttpClient
ResourceUrl(directory, resource) ==
  IF resource \in DOMAIN directory.res THEN directory.res[resource] ELSE ""

\* getDirectory: the directory GET is dispatched; `stage` is where
\* getResourceUrl was called from, and h = 0 names the new HttpClient of a
\* running updateAccountKey.
getDirectory(st, h, stage) ==
  LET s1 == IF h = 0
              THEN [st EXCEPT !.t = [@ EXCEPT !.newHttpClient = [@ EXCEPT !.gets = @ + 1]]]
              ELSE [st EXCEPT !.http[h] = [@ EXCEPT !.gets = @ + 1]]
  IN  [s1 EXCEPT !.t = [@ EXCEPT !.pc = "dir", !.hx = h, !.stage = stage]]

\* Mutant: the response is not kept.
setDirectory_dropped(hc, data) == hc

\* getDirectory once the GET is answered: this.directory = resp.data.
setDirectory(hc, data) == [hc EXCEPT !.directory = data]

\* getJwk: the cached JWK, or the one read from the account key.
getJwk(hc) ==
  IF hc.jwk # NoJwk
    THEN hc.jwk
    ELSE [ e |-> b64encode(getPublicExponent(hc.accountKey)),
           kty |-> "RSA",
           n |-> b64encode(getModulus(hc.accountKey)) ]

\* The HttpClient after getJwk has run on it.
cacheJwk(hc) == [hc EXCEPT !.jwk = getJwk(hc)]

\* Mutant: the first nonce the client ever got is kept and used again.
getNonce_first(resp) ==
  IF resp.replayNonce = 0
    THEN [thrown |-> TRUE, nonce |-> 0]
    ELSE [thrown |-> FALSE, nonce |-> 1]

\* Mutant: the replay-nonce header is not checked.
getNonce_unchecked(resp) == [thrown |-> FALSE, nonce |-> resp.replayNonce]

\* getNonce, on the newNonce response: it throws without a replay-nonce
\* header and returns the header otherwise.
getNonce(resp) ==
  IF resp.replayNonce = 0
    THEN [thrown |-> TRUE, nonce |-> 0]
    ELSE [thrown |-> FALSE, nonce |-> resp.replayNonce]

\* Mutant: the jwk member is written whether or not a kid is given.
createSignedBody_jwkAlways(hc, url, payload, nonce, kid) ==
  [ protected |->
      [ alg |-> "RS256", url |-> url, nonce |-> nonce, kid |-> kid,
        jwk |-> getJwk(hc) ],
    payload |-> payload,
    signedBy |-> hc.accountKey ]

\* createSignedBody.  `protected` is the header object itself: base64url of
\* its JSON text is one-to-one, and the signature is named by its key.
createSignedBody(hc, url, payload, nonce, kid) ==
  [ protected |->
      [ alg |-> "RS256",
        url |-> url,
        nonce |-> IF nonce # 0 THEN nonce ELSE 0,
        kid |-> IF kid # "" THEN kid ELSE "",
        jwk |-> IF kid # "" THEN NoJwk ELSE getJwk(hc) ],
    payload |-> payload,
    signedBy |-> hc.accountKey ]

\* Mutant: the request is signed by the HttpClient the client holds when
\* the nonce arrives.
signedRequestSend_current(st, nonce) ==
  LET h == st.client.http
      body == createSignedBody(st.http[h], st.t.url, st.t.payload, nonce, st.t.kid)
  IN  [st EXCEPT !.http[h] = IF st.t.kid # "" THEN @ ELSE cacheJwk(@),
                 !.t = [@ EXCEPT !.pc = "post", !.req = body, !.sends = @ + 1,
                                 !.rounds = IF st.t.aop = "newAccount" THEN @ + 1 ELSE @]]

\* signedRequest after getNonce returned: sign, then POST to the same url.
signedRequestSend(st, nonce) ==
  LET h == st.t.hx
      body == createSignedBody(st.http[h], st.t.url, st.t.payload, nonce, st.t.kid)
  IN  [st EXCEPT !.http[h] = IF st.t.kid # "" THEN @ ELSE cacheJwk(@),
                 !.t = [@ EXCEPT !.pc = "post", !.req = body, !.sends = @ + 1,
                                 !.rounds = IF st.t.aop = "newAccount" THEN @ + 1 ELSE @]]

\* getNonce once the directory is there: HEAD newNonce is dispatched.
getNonceHead(st) ==
  IF ResourceUrl(st.http[st.t.hx].directory, "newNonce") = ""
    THEN Throw(st)
    ELSE [st EXCEPT !.t = [@ EXCEPT !.pc = "head"]]

\* Mutant: a nonce pool.  A nonce some response brought and no request has
\* used is taken; HEAD newNonce is sent only when there is none.
signedRequest_pool(st) ==
  LET unused == {n \in DOMAIN nonces : nonces[n].uses = 0} IN
  IF unused # {}
    THEN signedRequestSend(st, CHOOSE n \in unused : \A m \in unused : m <= n)
    ELSE IF ~st.http[st.t.hx].directory.loaded
      THEN getDirectory(st, st.t.hx, "nonce")
      ELSE getNonceHead(st)

\* signedRequest: getNonce first, which needs the directory.
signedRequest(st) ==
  IF ~st.http[st.t.hx].directory.loaded
    THEN getDirectory(st, st.t.hx, "nonce")
    ELSE getNonceHead(st)

\* ------------------------------------------------------------ AcmeApi
\* getAccountUrl: the account URL; "" stands for the thrown Error.
getAccountUrl(a) == a.accountUrl

\* Mutant: the status is not checked.
apiRequestCheck_lenient(validStatusCodes, resp) == TRUE

\* apiRequest once the request has been answered: whether the status passes.
apiRequestCheck(validStatusCodes, resp) ==
  ~(validStatusCodes # {} /\ resp.status \notin validStatusCodes)

\* Mutant: the request is sent without a kid when there is no account URL.
apiRequestSend_noAccountUrl(st) ==
  LET accountUrl == st.api[st.t.api].accountUrl IN
  LET s1 == [st EXCEPT !.t = [@ EXCEPT !.kid = IF st.t.jwsKid THEN accountUrl ELSE ""]]
  IN  IF st.t.method = "get"
        THEN [s1 EXCEPT !.t = [@ EXCEPT !.pc = "get"]]
        ELSE signedRequest(s1)

\* apiRequest from the kid on: the url is known.
apiRequestSend(st) ==
  LET accountUrl == st.api[st.t.api].accountUrl IN
  IF st.t.jwsKid /\ accountUrl = ""
    THEN Throw(st)
    ELSE LET s1 == [st EXCEPT !.t = [@ EXCEPT !.kid = IF st.t.jwsKid THEN accountUrl ELSE ""]]
         IN  IF st.t.method = "get"
               THEN [s1 EXCEPT !.t = [@ EXCEPT !.pc = "get"]]
               ELSE signedRequest(s1)

\* apiRequest after getResourceUrl(resource) has the directory.
apiRequestUrl(st) ==
  LET u == ResourceUrl(st.http[st.t.hx].directory, st.t.resource) IN
  IF u = "" THEN Throw(st)
  ELSE apiRequestSend([st EXCEPT !.t = [@ EXCEPT !.url = u]])

apiRequest(st, aop, a, payload, resource, method, validStatusCodes, jwsKid, url) ==
  LET h == st.api[a].http
      s1 == [st EXCEPT !.t = [@ EXCEPT !.aop = aop, !.api = a, !.hx = h,
                                       !.payload = payload, !.resource = resource,
                                       !.method = method, !.valid = validStatusCodes,
                                       !.jwsKid = jwsKid, !.url = url, !.kid = "",
                                       !.sends = 0, !.req = NoBody]]
  IN  IF url = ""
        THEN IF ~s1.http[h].directory.loaded
               THEN getDirectory(s1, h, "resource")
               ELSE apiRequestUrl(s1)
        ELSE apiRequestSend(s1)

ApiCreateAccount(st, a, data) ==
  apiRequest(st, "newAccount", a, data, "newAccount", "post", {200, 201}, FALSE, "")

\* updateAccount(data): this.getAccountUrl() is an argument of apiRequest,
\* so a missing account URL throws before apiRequest is entered.
ApiUpdateAccount(st, a, data) ==
  IF st.api[a].accountUrl = "" THEN Throw(st)
  ELSE apiRequest(st, "updateAccount", a, data, "", "post", {200, 202}, TRUE,
                  st.api[a].accountUrl)

ApiUpdateAccountKey(st, a, data) ==
  apiRequest(st, "keyChange", a, data, "keyChange", "post", {200}, TRUE, "")

ApiCreateOrder(st, a, data) ==
  apiRequest(st, "newOrder", a, data, "newOrder", "post", {201}, TRUE, "")

ApiFinalizeOrder(st, a, url, data) ==
  apiRequest(st, "finalizeOrder", a, data, "", "post", {200}, TRUE, url)

ApiUpdateAuthorization(st, a, url, data) ==
  apiRequest(st, "updateAuthorization", a, data, "", "post", {200}, TRUE, url)

ApiCompleteChallenge(st, a, url, data) ==
  apiRequest(st, "completeChallenge", a, data, "", "post", {200}, TRUE, url)

\* get(url, validStatusCodes), as getAuthorization calls it.
ApiGetAuthorization(st, a, url) ==
  apiRequest(st, "getAuthorization", a, NoPayload, "", "get", {200}, FALSE, url)

\* Mutant: revokeCert is signed with the jwk instead of the kid.
ApiRevokeCert_jwk(st, a, data) ==
  apiRequest(st, "revokeCert", a, data, "revokeCert", "post", {200}, FALSE, "")

ApiRevokeCert(st, a, data) ==
  apiRequest(st, "revokeCert", a, data, "revokeCert", "post", {200}, TRUE, "")


\* ------------------------------------------------------------ Client
RECURSIVE ClientCreateAccount(_, _), ClientUpdateAccount(_, _)

\* Mutant: createAccount registers whether or not it has an account URL.
ClientCreateAccount_new(st, data) == ApiCreateAccount(st, st.client.api, data)

\* Client.getAccountUrl: the account URL of this.api, or its Error.
ClientGetAccountUrl(st) ==
  IF getAccountUrl(st.api[st.client.api]) = "" THEN Throw(st)
  ELSE Resolve(st, "", getAccountUrl(st.api[st.client.api]))

\* createAccount: getAccountUrl() throws without an account URL, and the
\* catch block posts newAccount.
ClientCreateAccount(st, data) ==
  IF st.api[st.client.api].accountUrl # ""
    THEN ClientUpdateAccount(st, data)
    ELSE ApiCreateAccount(st, st.client.api, data)

ClientUpdateAccount(st, data) ==
  IF st.api[st.client.api].accountUrl = ""
    THEN ClientCreateAccount(st, data)
    ELSE ApiUpdateAccount(st, st.client.api, data)

\* Mutant: the Location header is not kept.
createAccountReturn_forget(st, resp) ==
  IF resp.status = 200
    THEN ClientUpdateAccount(st, st.t.payload)
    ELSE Resolve(st, "newAccount", "")

\* Mutant: a 200 is returned like a 201, without the account update.
createAccountReturn_noUpdate(st, resp) ==
  LET s1 == IF resp.location # ""
              THEN [st EXCEPT !.api[st.t.api].accountUrl = resp.location]
              ELSE st
  IN  Resolve(s1, "newAccount", "")

\* api.createAccount and Client.createAccount once newAccount has answered
\* with an allowed status.
createAccountReturn(st, resp) ==
  LET s1 == IF resp.location # ""
              THEN [st EXCEPT !.api[st.t.api].accountUrl = resp.location]
              ELSE st
  IN  IF resp.status = 200
        THEN ClientUpdateAccount(s1, st.t.payload)
        ELSE Resolve(s1, "newAccount", "")

\* Mutant: the inner body is signed by the HttpClient the client holds.
updateAccountKeySign_oldClient(st) ==
  LET newHttpClient == st.t.newHttpClient
      url == ResourceUrl(newHttpClient.directory, "keyChange")
  IN  IF url = "" THEN Throw(st)
      ELSE LET body == createSignedBody(st.http[st.client.http], url, st.t.payload, 0, "")
           IN  ApiUpdateAccountKey(st, st.client.api, [tag |-> "jws", jws |-> body])

\* Mutant: this.http and this.api are replaced before keyChange is posted.
updateAccountKeySign_replaceFirst(st) ==
  LET newHttpClient == st.t.newHttpClient
      url == ResourceUrl(newHttpClient.directory, "keyChange")
      n == Len(st.http) + 1
      s1 == [st EXCEPT !.http = Append(@, newHttpClient),
                       !.api = Append(@, [http |-> n, accountUrl |-> st.t.accountUrl]),
                       !.client = [http |-> n, api |-> n]]
  IN  IF url = "" THEN Throw(st)
      ELSE LET body == createSignedBody(newHttpClient, url, st.t.payload, 0, "")
           IN  ApiUpdateAccountKey(s1, s1.client.api, [tag |-> "jws", jws |-> body])

\* updateAccountKey once the new HttpClient has its directory: sign the inner
\* body with the new client, post it with the API the client holds now.
updateAccountKeySign(st) ==
  LET newHttpClient == st.t.newHttpClient
      url == ResourceUrl(newHttpClient.directory, "keyChange")
  IN  IF url = "" THEN Throw(st)
      ELSE LET body == createSignedBody(newHttpClient, url, st.t.payload, 0, "")
           IN  ApiUpdateAccountKey(st, st.client.api, [tag |-> "jws", jws |-> body])

\* Mutant: oldKey and newKey are taken from the wrong HttpClient.
ClientUpdateAccountKey_swapped(st, newAccountKey) ==
  LET accountUrl == st.api[st.client.api].accountUrl IN
  IF accountUrl = "" THEN Throw(st)
  ELSE
    LET newHttpClient == [NoHttpClient EXCEPT !.accountKey = newAccountKey]
        data == [ tag |-> "keyChange",
                  account |-> accountUrl,
                  oldKey |-> getJwk(newHttpClient),
                  newKey |-> getJwk(st.http[st.client.http]) ]
        s1 == [st EXCEPT
                 !.http[st.client.http] = cacheJwk(@),
                 !.t = [@ EXCEPT !.newHttpClient = cacheJwk(newHttpClient),
                                 !.accountUrl = accountUrl,
                                 !.payload = data]]
    IN  getDirectory(s1, 0, "keyChange")

\* updateAccountKey up to the directory request of the new HttpClient.  The
\* new HttpClient and AcmeApi (account URL st.t.accountUrl) are locals of the
\* call until it replaces the client's.
ClientUpdateAccountKey(st, newAccountKey) ==
  LET accountUrl == st.api[st.client.api].accountUrl IN
  IF accountUrl = "" THEN Throw(st)
  ELSE
    LET newHttpClient == [NoHttpClient EXCEPT !.accountKey = newAccountKey]
        data == [ tag |-> "keyChange",
                  account |-> accountUrl,
                  oldKey |-> getJwk(st.http[st.client.http]),
                  newKey |-> getJwk(newHttpClient) ]
        s1 == [st EXCEPT
                 !.http[st.client.http] = cacheJwk(@),
                 !.t = [@ EXCEPT !.newHttpClient = cacheJwk(newHttpClient),
                                 !.accountUrl = accountUrl,
                                 !.payload = data]]
    IN  IF ~s1.t.newHttpClient.directory.loaded
          THEN getDirectory(s1, 0, "keyChange")
          ELSE updateAccountKeySign(s1)

\* Mutant: this.api is replaced and this.http is not.
updateAccountKeyReturn_keepHttp(st) ==
  LET n == Len(st.http) + 1 IN
  Resolve([st EXCEPT !.http = Append(@, st.t.newHttpClient),
                     !.api = Append(@, [http |-> n, accountUrl |-> st.t.accountUrl]),
                     !.client = [http |-> st.client.http, api |-> n]],
          "keyChange", "")

\* updateAccountKey once keyChange has answered 200: replace this.http, this.api.
updateAccountKeyReturn(st) ==
  LET n == Len(st.http) + 1 IN
  Resolve([st EXCEPT !.http = Append(@, st.t.newHttpClient),
                     !.api = Append(@, [http |-> n, accountUrl |-> st.t.accountUrl]),
                     !.client = [http |-> n, api |-> n]],
          "keyChange", "")

ClientCreateOrder(st) ==
  ApiCreateOrder(st, st.client.api, [tag |-> "order"])

\* Mutant: the order is returned with whatever the Location header holds.
createOrderReturn_anyLocation(st, resp) ==
  Resolve(st, "newOrder", resp.location)

createOrderReturn(st, resp) ==
  IF resp.location = "" THEN Throw(st)
  ELSE Resolve(st, "newOrder", resp.location)

ClientFinalizeOrder(st, order) ==
  IF order.finalize = "" THEN Throw(st)
  ELSE ApiFinalizeOrder(st, st.client.api, order.finalize, [tag |-> "csr"])

\* getAuthorizations: PromiseA.map calls the mapper on every URL of the order,
\* so every GET is dispatched before any is answered; got[i] is the url
\* member of what mapper i has returned ("" while it has not returned).
ClientGetAuthorizations(st, order) ==
  LET urls == order.authorizations IN
  IF urls = << >> THEN Resolve(st, "getAuthorization", "")
  ELSE LET s1 == ApiGetAuthorization(st, st.client.api, urls[Len(urls)])
       IN  [s1 EXCEPT !.t = [@ EXCEPT !.urls = urls,
                                      !.got = [i \in 1..Len(urls) |-> ""]]]

\* Mutant: the list holds what the mappers return in the order of arrival.
getAuthorizationsReturn_arrival(st, i) ==
  LET k == CHOOSE k \in 1..Len(st.t.got) :
             st.t.got[k] = "" /\ \A j \in 1..(k - 1) : st.t.got[j] # ""
      got == [st.t.got EXCEPT ![k] = st.t.url]
  IN  IF \A j \in 1..Len(got) : got[j] # ""
        THEN [Resolve(st, "getAuthorization", "") EXCEPT !.data = got]
        ELSE [st EXCEPT !.t = [@ EXCEPT !.got = got]]

\* Mapper i of getAuthorizations returns resp.data with data.url = url, the
\* URL it was called on (st.t.url); the map resolves when all have, with
\* what they returned in the order of the URLs.
getAuthorizationsReturn(st, i) ==
  LET got == [st.t.got EXCEPT ![i] = st.t.url] IN
  IF \A k \in 1..Len(got) : got[k] # ""
    THEN [Resolve(st, "getAuthorization", "") EXCEPT !.data = got]
    ELSE [st EXCEPT !.t = [@ EXCEPT !.got = got]]

ClientDeactivateAuthorization(st, authz) ==
  IF authz.url = "" THEN Throw(st)
  ELSE ApiUpdateAuthorization(st, st.client.api, authz.url,
                              [tag |-> "status", status |-> "deactivated"])

Sha256(x) == <<"sha256", x>>

\* JSON.stringify of a JWK: its members in insertion order.
JsonJwk(jwk) == <<<<"e", jwk.e>>, <<"kty", jwk.kty>>, <<"n", jwk.n>>>>

ChallengeTypes == {"http-01", "dns-01", "tls-alpn-01"}

\* Mutant: the value of http-01 is returned for every known type.
getChallengeKeyAuthorization_plain(hc, challenge) ==
  LET thumbprint == b64encode(Sha256(JsonJwk(getJwk(hc))))
      result == <<challenge.token, ".", thumbprint>>
  IN  IF challenge.type \in ChallengeTypes THEN result ELSE <<>>

\* getChallengeKeyAuthorization; <<>> stands for the thrown Error.
getChallengeKeyAuthorization(hc, challenge) ==
  LET thumbprint == b64encode(Sha256(JsonJwk(getJwk(hc))))
      result == <<challenge.token, ".", thumbprint>>
  IN  IF challenge.type = "http-01" THEN result
      ELSE IF challenge.type \in {"dns-01", "tls-alpn-01"}
        THEN b64encode(Sha256(result))
      ELSE <<>>

ClientCompleteChallenge(st, challenge) ==
  LET h == st.client.http
      keyAuthorization == getChallengeKeyAuthorization(st.http[h], challenge)
      s1 == [st EXCEPT !.http[h] = cacheJwk(@)]
  IN  IF keyAuthorization = <<>> THEN Throw(s1)
      ELSE ApiCompleteChallenge(s1, s1.client.api, challenge.url,
             [tag |-> "keyAuthorization", keyAuthorization |-> keyAuthorization])

ClientRevokeCertificate(st) ==
  ApiRevokeCert(st, st.client.api, [tag |-> "certificate"])


\* ------------------------------------------------------------ helper.retry
\* One retry call.  backoff is the Backoff object (package backo2), of which
\* retryPromise reads `attempts`, the number of durations handed out so far;
\* aborted is the local of the retryPromise activation that is running; calls
\* and delays count the invocations of fn and the delays waited; an error or
\* result is named by the invocation of fn it comes from (of).  For the Client
\* methods that poll: resp is the last response to a status GET, msg the
\* message of the Error thrown last, sent the requests sent so far, order the
\* order getCertificate holds, cert the response to the certificate request
\* and ret what getCertificate returned.
NoError == [present |-> FALSE, detail |-> << >>]
NoData == [status |-> "", error |-> NoError, detail |-> << >>, certificate |-> ""]
NoOrder == [url |-> "", status |-> "", certificate |-> ""]

NoRetry ==
  [ pc |-> "idle", kind |-> "", attempts |-> 0, backoff |-> [attempts |-> 0],
    aborted |-> FALSE, calls |-> 0, delays |-> 0, fn |-> "",
    settled |-> [res |-> "none", of |-> 0],
    resp |-> [status |-> 0, data |-> NoData],
    msg |-> << >>, sent |-> << >>, order |-> NoOrder,
    cert |-> [status |-> 0, data |-> ""], ret |-> "" ]

\* A string is the sequence of its pieces; LF is the line feed.
LF == "\n"

\* result.replace(/\n/g, ""): the string without its line feeds.
RECURSIVE replaceLF(_)
replaceLF(s) ==
  IF s = << >> THEN << >>
  ELSE IF Head(s) = LF THEN replaceLF(Tail(s))
  ELSE <<Head(s)>> \o replaceLF(Tail(s))

\* JSON.stringify(resp.data) of a body without error and detail members.
JsonStringify(data) == <<"{\"status\":\"", data.status, "\"}">>

\* Mutant: the detail member of the error object is not looked at.
formatResponseError_top(resp) ==
  replaceLF(IF resp.data.detail # << >> THEN resp.data.detail
            ELSE JsonStringify(resp.data))

\* helper.formatResponseError.  An error member without detail makes result an
\* object, and result.replace throws a TypeError with the message below.
formatResponseError(resp) ==
  IF resp.data.error.present
    THEN IF resp.data.error.detail # << >>
           THEN replaceLF(resp.data.error.detail)
           ELSE <<"result.replace is not a function">>
    ELSE replaceLF(IF resp.data.detail # << >> THEN resp.data.detail
                   ELSE JsonStringify(resp.data))

\* What one invocation of fn does: it returns or throws, having called the
\* abort signal before or not.
FnOutcomes == {"return", "throw", "abortThrow", "abortReturn"}

\* retryPromise is entered: aborted = false, and fn is invoked.
retryPromise(r) ==
  [r EXCEPT !.pc = "fn", !.aborted = FALSE, !.calls = @ + 1]

\* fn calls the abort signal: () => aborted = true.
abort(r) == [r EXCEPT !.aborted = TRUE]

\* `return await fn(...)` when fn returns.
retryPromiseReturn(r) ==
  [r EXCEPT !.pc = "resolved", !.settled = [res |-> "ok", of |-> r.calls]]

\* Mutant: the attempts are counted one too late.
retryPromiseCatch_late(r) ==
  IF r.aborted \/ r.backoff.attempts >= r.attempts
    THEN [r EXCEPT !.pc = "rejected", !.settled = [res |-> "err", of |-> r.calls]]
    ELSE [r EXCEPT !.pc = "delay", !.backoff.attempts = @ + 1, !.delays = @ + 1]

\* Mutant: the abort signal is not looked at.
retryPromiseCatch_noAbort(r) ==
  IF (r.backoff.attempts + 1) >= r.attempts
    THEN [r EXCEPT !.pc = "rejected", !.settled = [res |-> "err", of |-> r.calls]]
    ELSE [r EXCEPT !.pc = "delay", !.backoff.attempts = @ + 1, !.delays = @ + 1]

\* The catch block of retryPromise: rethrow, or take backoff.duration()
\* (which counts) and wait that long.
retryPromiseCatch(r) ==
  IF r.aborted \/ (r.backoff.attempts + 1) >= r.attempts
    THEN [r EXCEPT !.pc = "rejected", !.settled = [res |-> "err", of |-> r.calls]]
    ELSE [r EXCEPT !.pc = "delay", !.backoff.attempts = @ + 1, !.delays = @ + 1]

\* One invocation of fn is over.
fnDone(r, outcome) ==
  LET r1 == [IF outcome \in {"abortThrow", "abortReturn"} THEN abort(r) ELSE r
               EXCEPT !.fn = outcome]
  IN  IF outcome \in {"return", "abortReturn"}
        THEN retryPromiseReturn(r1)
        ELSE retryPromiseCatch(r1)

\* Mutant: a response of another status than 200 aborts the polling.
verifyFn_abortStatus(resp) ==
  IF ~apiRequestCheck({200}, resp) THEN "abortThrow"
  ELSE IF resp.data.status = "invalid" THEN "abortThrow"
  ELSE IF resp.data.status = "pending" THEN "throw"
  ELSE IF resp.data.status = "valid" THEN "return"
  ELSE "throw"

\* Mutant: an item that is ready is returned like a valid one.
verifyFn_ready(resp) ==
  IF ~apiRequestCheck({200}, resp) THEN "throw"
  ELSE IF resp.data.status = "invalid" THEN "abortThrow"
  ELSE IF resp.data.status = "pending" THEN "throw"
  ELSE IF resp.data.status \in {"valid", "ready"} THEN "return"
  ELSE "throw"

\* Mutant: an item of any other status is returned like a valid one.
verifyFn_lax(resp) ==
  IF ~apiRequestCheck({200}, resp) THEN "throw"
  ELSE IF resp.data.status = "invalid" THEN "abortThrow"
  ELSE IF resp.data.status = "pending" THEN "throw"
  ELSE "return"

\* verifyFn of waitForValidStatus once api.get(item.url, [200]) is answered.
verifyFn(resp) ==
  IF ~apiRequestCheck({200}, resp) THEN "throw"
  ELSE IF resp.data.status = "invalid" THEN "abortThrow"
  ELSE IF resp.data.status = "pending" THEN "throw"
  ELSE IF resp.data.status = "valid" THEN "return"
  ELSE "throw"

\* The message of the Error verifyFn throws (<< >> when it returns).
verifyFnError(resp) ==
  IF ~apiRequestCheck({200}, resp) THEN formatResponseError(resp)
  ELSE IF resp.data.status = "invalid" THEN formatResponseError(resp)
  ELSE IF resp.data.status = "pending" THEN <<"Operation is pending">>
  ELSE IF resp.data.status = "valid" THEN << >>
  ELSE <<"Unexpected item status: ", resp.data.status>>

\* Mutant: the resource is read with a POST that carries a JWS.
request_signed(url, method) ==
  [method |-> "post", url |-> url,
   data |-> [NoBody EXCEPT !.protected.url = url, !.protected.nonce = 1,
                           !.signedBy = InitialKey]]

\* HttpClient.request(url, method, opts) as the Client methods below call it:
\* the request handed to axios, which has no data.
request(url, method) == [method |-> method, url |-> url, data |-> NoBody]

\* AcmeApi.get(url, validStatusCodes): apiRequest with method "get" sends
\* this.http.request(url, method).
ApiGet(r, url) == [r EXCEPT !.sent = Append(@, request(url, "get"))]

\* waitForValidStatus(item): it throws without item.url, else
\* helper.retry(verifyFn, this.backoffOpts), whose verifyFn sends the GET.
ClientWaitForValidStatus(r, item) ==
  IF item.url = ""
    THEN [r EXCEPT !.pc = "rejected", !.settled = [res |-> "err", of |-> 0],
                   !.order = item,
                   !.msg = <<"Unable to verify status of item, URL not found">>]
    ELSE ApiGet(retryPromise([r EXCEPT !.order = item]), item.url)

\* getCertificate once it holds a valid order: it throws without
\* order.certificate, else sends this.http.request(order.certificate, "get").
getCertificateDownload(r) ==
  IF r.order.certificate = ""
    THEN [r EXCEPT !.pc = "rejected",
                   !.msg = <<"Unable to download certificate, URL not found">>]
    ELSE [r EXCEPT !.pc = "download",
                   !.sent = Append(@, request(r.order.certificate, "get"))]

\* Mutant: an order of any status is taken as it is.
ClientGetCertificate_noWait(r, order) ==
  getCertificateDownload([r EXCEPT !.order = order])

\* getCertificate(order) up to its first request.
ClientGetCertificate(r, order) ==
  IF order.status # "valid"
    THEN ClientWaitForValidStatus(r, order)
    ELSE getCertificateDownload([r EXCEPT !.order = order])

\* getCertificate when the certificate request is answered: `return resp.data`.
getCertificateReturn(r, resp) ==
  [r EXCEPT !.pc = "resolved", !.cert = resp, !.ret = resp.data]

\* ------------------------------------------------------------ steps
\* A Client method is called on task p.
Called(p, cop) ==
  [ client |-> client, http |-> http, api |-> api,
    t |-> [Idle EXCEPT !.cop = cop,
                       !.hadUrl = (api[client.api].accountUrl # "")],
    was |-> [Idle EXCEPT !.cop = cop,
                         !.hadUrl = (api[client.api].accountUrl # "")],
    out |-> NoOutcome, data |-> << >> ]

\* The response task p waits for has arrived.
Resumed(p) ==
  [ client |-> client, http |-> http, api |-> api, t |-> task[p],
    was |-> task[p], out |-> NoOutcome, data |-> << >> ]

\* The step of task p leaves the program in st, having consumed the response
\* resp (NoResponse when the step is a call).  A response with a Replay-Nonce
\* header carries the server's next nonce; a step that ends in "post" has
\* dispatched the signed request st.t.req.
Commit(p, st, resp) ==
  /\ client' = st.client
  /\ http' = st.http
  /\ api' = st.api
  /\ task' = [task EXCEPT ![p] = st.t]
  /\ nonces' =
       LET issued == IF resp.replayNonce = 0 THEN nonces
                     ELSE Append(nonces, [src |-> resp.to, by |-> p, uses |-> 0])
           n == st.t.req.protected.nonce
       IN  IF st.t.pc = "post" /\ n \in DOMAIN issued
             THEN [issued EXCEPT ![n].uses = @ + 1]
             ELSE issued
  /\ last' = [p |-> p, was |-> st.was, resp |-> resp, out |-> st.out,
              data |-> st.data]
  /\ concurrent' = concurrent
  /\ poll' = poll
  /\ run' = run
  /\ read' = read

\* Tasks are anonymous: a call runs on the first free one.
CanCall(p) ==
  /\ task[p].pc = "idle"
  /\ ops < (IF concurrent THEN MaxConcurrentOps ELSE MaxOps)
  /\ p = "t1" \/ task["t1"].pc # "idle"
  /\ concurrent \/ \A q \in Procs : task[q].pc = "idle"

AccountData == [tag |-> "account"]

getAccountUrlCall(p) ==
  /\ CanCall(p)
  /\ ops' = ops + 1
  /\ Commit(p, ClientGetAccountUrl(Called(p, "getAccountUrl")), NoResponse)

createAccount(p) ==
  /\ CanCall(p)
  /\ ops' = ops + 1
  /\ Commit(p, ClientCreateAccount(Called(p, "createAccount"), AccountData), NoResponse)

updateAccount(p) ==
  /\ CanCall(p)
  /\ ops' = ops + 1
  /\ Commit(p, ClientUpdateAccount(Called(p, "updateAccount"), AccountData), NoResponse)

updateAccountKey(p) ==
  /\ CanCall(p)
  /\ ops' = ops + 1
  /\ \E newAccountKey \in Keys :
       Commit(p, ClientUpdateAccountKey(Called(p, "updateAccountKey"), newAccountKey),
              NoResponse)

createOrder(p) ==
  /\ CanCall(p)
  /\ ops' = ops + 1
  /\ Commit(p, ClientCreateOrder(Called(p, "createOrder")), NoResponse)

finalizeOrder(p) ==
  /\ CanCall(p)
  /\ ops' = ops + 1
  /\ \E finalize \in {"", "/finalize/1"} :
       Commit(p, ClientFinalizeOrder(Called(p, "finalizeOrder"), [finalize |-> finalize]),
              NoResponse)

deactivateAuthorization(p) ==
  /\ CanCall(p)
  /\ ops' = ops + 1
  /\ \E url \in {"", "/authz/1"} :
       Commit(p, ClientDeactivateAuthorization(Called(p, "deactivateAuthorization"),
                                               [url |-> url]), NoResponse)

\* The challenges a caller may pass: of the three known types and of one the
\* client does not know, with one of two tokens.
OfferedTypes == ChallengeTypes \cup {"bogus-01"}
Tokens == {"token1", "token2"}

\* completeChallenge(challenge) is called; the step records the challenge as
\* the payload of the call.

completeChallenge(p) ==
  /\ CanCall(p)
  /\ ops' = ops + 1
  /\ \E type \in OfferedTypes, token \in Tokens :
       LET challenge == [tag |-> "challenge", type |-> type, token |-> token,
                         url |-> "/chall/1"]
       IN  Commit(p, ClientCompleteChallenge(
                       [Called(p, "completeChallenge") EXCEPT !.was.payload = challenge],
                       challenge),
                  NoResponse)

revokeCertificate(p) ==
  /\ CanCall(p)
  /\ ops' = ops + 1
  /\ Commit(p, ClientRevokeCertificate(Called(p, "revokeCertificate")), NoResponse)

\* client.retrieveAccount() is called: class Client has no such member, so
\* the call throws a TypeError and nothing is sent.
retrieveAccount(p) ==
  /\ CanCall(p)
  /\ ops' = ops + 1
  /\ Commit(p, Throw(Called(p, "retrieveAccount")), NoResponse)

AuthorizationUrl(i) == IF i = 1 THEN "/authz/1" ELSE IF i = 2 THEN "/authz/2" ELSE "/authz/3"

getAuthorizations(p) ==
  /\ CanCall(p)
  /\ ops' = ops + 1
  /\ \E n \in 0..MaxAuthorizations :
       Commit(p, ClientGetAuthorizations(Called(p, "getAuthorizations"),
                   [authorizations |-> [i \in 1..n |-> AuthorizationUrl(i)]]),
              NoResponse)

\* The directory GET is answered: this.directory = resp.data, and
\* getResourceUrl returns to its caller.
directoryResponse(p) ==
  /\ task[p].pc = "dir"
  /\ ops' = ops
  /\ \E body \in DirectoryBodies :
       LET st == IF task[p].stage = "keyChange"
                   THEN [Resumed(p) EXCEPT !.t = [@ EXCEPT !.newHttpClient = setDirectory(@, body)]]
                   ELSE [Resumed(p) EXCEPT !.http[task[p].hx] = setDirectory(@, body)]
       IN  Commit(p, CASE task[p].stage = "resource" -> apiRequestUrl(st)
                       [] task[p].stage = "nonce" -> getNonceHead(st)
                       [] OTHER -> updateAccountKeySign(st),
                  [NoResponse EXCEPT !.to = "directory",
                                     !.status = IF body = FullDirectory THEN 200 ELSE 400])

\* HEAD newNonce is answered, with or without a Replay-Nonce header.
nonceResponse(p) ==
  /\ task[p].pc = "head"
  /\ ops' = ops
  /\ \E replayNonce \in {0, Len(nonces) + 1} :
       LET resp == [to |-> "newNonce", status |-> 200, type |-> "", location |-> "",
                    replayNonce |-> replayNonce]
           got == getNonce(resp)
           st == Resumed(p)
       IN  Commit(p, IF got.thrown THEN Throw(st) ELSE signedRequestSend(st, got.nonce),
                  resp)

Locations(aop) ==
  IF aop = "newAccount" THEN {"", ServerAccountUrl}
  ELSE IF aop = "newOrder" THEN {"", OrderUrl}
  ELSE {""}

\* Mutant: a first badNonce is retried with the nonce of the response.
apiRequestFail_retry(st, resp) ==
  IF resp = [resp EXCEPT !.status = BadNonce.status, !.type = BadNonce.type]
     /\ st.t.pc = "post" /\ st.t.sends < 2
    THEN signedRequestSend(st, resp.replayNonce)
    ELSE Throw(st)

\* Mutant: the Location header is kept as account URL before the status is
\* checked.
apiRequestFail_keepLocation(st, resp) ==
  Throw([st EXCEPT !.api[st.t.api].accountUrl =
                     IF st.t.aop = "newAccount" /\ resp.location # ""
                       THEN resp.location ELSE @])

\* apiRequest when the status does not pass: it throws.
apiRequestFail(st, resp) == Throw(st)

\* The method that called apiRequest goes on with the response.
apiRequestReturn(st, resp) ==
  CASE st.t.aop = "newAccount" -> createAccountReturn(st, resp)
    [] st.t.aop = "keyChange" -> updateAccountKeyReturn(st)
    [] st.t.aop = "newOrder" -> createOrderReturn(st, resp)
    [] OTHER -> Resolve(st, st.t.aop, "")

\* The signed POST is answered; every such response carries a fresh nonce.
signedResponse(p) ==
  /\ task[p].pc = "post"
  /\ ops' = ops
  /\ \E r \in Responses, location \in Locations(task[p].aop) :
       LET resp == [to |-> task[p].aop, status |-> r.status, type |-> r.type,
                    location |-> location, replayNonce |-> Len(nonces) + 1]
           st == Resumed(p)
       IN  /\ ~( task[p].aop = "newAccount" /\ resp.status = 200 /\ location = ""
                 /\ task[p].rounds >= MaxRounds )
           /\ Commit(p, IF apiRequestCheck(task[p].valid, resp)
                          THEN apiRequestReturn(st, resp)
                          ELSE apiRequestFail(st, resp),
                     resp)

\* One GET of getAuthorizations is answered.  A status outside the list
\* rejects the map at once; what the other GETs bring is dropped.
getResponse(p) ==
  /\ task[p].pc = "get"
  /\ ops' = ops
  /\ \E i \in 1..Len(task[p].got), r \in Responses :
       LET resp == [to |-> task[p].aop, status |-> r.status, type |-> r.type,
                    location |-> "", replayNonce |-> 0]
           st == [Resumed(p) EXCEPT !.t = [@ EXCEPT !.url = task[p].urls[i]]]
       IN  /\ task[p].got[i] = ""
           /\ Commit(p, IF apiRequestCheck(task[p].valid, resp)
                          THEN getAuthorizationsReturn(st, i)
                          ELSE apiRequestFail(st, resp),
                     resp)

NoRun ==
  [pc |-> "idle", challengePriority |-> << >>, verify |-> FALSE,
   authorizations |-> << >>, chain |-> << >>]

\* A CSR or certificate as its maker filled it in: the words of the common
\* name (<< >>: none) and the alt names, each a DNS name or an IP address.
NoDomains == [done |-> FALSE, commonName |-> << >>, altNames |-> << >>]
NoRead ==
  [doc |-> [kind |-> "", commonName |-> << >>, altNames |-> << >>],
   forge |-> NoDomains, openssl |-> NoDomains]

NoStep ==
  [p |-> "", was |-> Idle, resp |-> NoResponse, out |-> NoOutcome, data |-> << >>]

Constructed ==
  /\ client = [http |-> 1, api |-> 1]
  /\ http = << [NoHttpClient EXCEPT !.accountKey = InitialKey] >>
  /\ \E accountUrl \in ConfiguredAccountUrls :
       api = << [http |-> 1, accountUrl |-> accountUrl] >>
  /\ task = [p \in Procs |-> Idle]
  /\ ops = 0
  /\ nonces = << >>
  /\ last = NoStep
  /\ poll = NoRetry
  /\ run = NoRun

\* The caller awaits every Client method before it calls the next.
Init == Constructed /\ concurrent = FALSE /\ read = NoRead

\* The caller may call Client methods while others are running.
InitConcurrent == Constructed /\ concurrent = TRUE /\ read = NoRead

Next ==
  \E p \in Procs :
    \/ createAccount(p)
    \/ updateAccount(p)
    \/ updateAccountKey(p)
    \/ createOrder(p)
    \/ finalizeOrder(p)
    \/ deactivateAuthorization(p)
    \/ completeChallenge(p)
    \/ revokeCertificate(p)
    \/ getAuthorizations(p)
    \/ retrieveAccount(p)
    \/ getAccountUrlCall(p)
    \/ getResponse(p)
    \/ directoryResponse(p)
    \/ nonceResponse(p)
    \/ signedResponse(p)

Spec == Init /\ [][Next]_vars

\* ---- helper.retry and waitForValidStatus
AttemptOptions == (0..MaxAttempts) \cup {DefaultAttempts}
BackoffAttemptOptions == (0..MaxAttempts) \cup {DefaultBackoffAttempts}

ItemStatuses == {"pending", "ready", "processing", "valid", "invalid"}

\* helper.retry(fn, {attempts}) is called: new Backoff, first retryPromise.
retry ==
  /\ poll.pc = "idle"
  /\ \E attempts \in AttemptOptions :
       poll' = retryPromise([NoRetry EXCEPT !.kind = "fn", !.attempts = attempts])
  /\ UNCHANGED <<client, http, api, task, ops, nonces, concurrent, last, run, read>>

\* fn settles.
fnSettles ==
  /\ poll.pc = "fn"
  /\ poll.kind = "fn"
  /\ \E outcome \in FnOutcomes : poll' = fnDone(poll, outcome)
  /\ UNCHANGED <<client, http, api, task, ops, nonces, concurrent, last, run, read>>

\* PromiseA.delay(duration) is over: `return retryPromise(fn, attempts, backoff)`;
\* the verifyFn of waitForValidStatus sends its GET.
delayElapsed ==
  /\ poll.pc = "delay"
  /\ poll' = IF poll.kind = "fn" THEN retryPromise(poll)
             ELSE ApiGet(retryPromise(poll), poll.order.url)
  /\ UNCHANGED <<client, http, api, task, ops, nonces, concurrent, last, run, read>>

\* waitForValidStatus(item): it throws without item.url, else
\* helper.retry(verifyFn, this.backoffOpts), whose verifyFn sends the GET.
waitForValidStatus ==
  /\ poll.pc = "idle"
  /\ \E url \in {"", OrderUrl}, backoffAttempts \in BackoffAttemptOptions :
       poll' = ClientWaitForValidStatus(
                 [NoRetry EXCEPT !.kind = "wait", !.attempts = backoffAttempts],
                 [NoOrder EXCEPT !.url = url, !.status = "pending"])
  /\ UNCHANGED <<client, http, api, task, ops, nonces, concurrent, last, run, read>>

\* What an ACME server may answer to the GET of an item.
Details == { << >>, <<"dns lookup failed">>, <<"dns lookup", LF, "failed">> }
Errors == {NoError} \cup { [present |-> TRUE, detail |-> d] : d \in Details }
CertificateUrl == "/cert/1"

StatusResponses ==
  { [status |-> 200, data |-> [status |-> s, error |-> e, detail |-> << >>,
                               certificate |-> c]] :
      s \in ItemStatuses, e \in Errors, c \in {"", CertificateUrl} }
  \cup { [status |-> 400, data |-> [NoData EXCEPT !.detail = d]] : d \in Details }

\* The GET of verifyFn is answered; when that resolves the polling of
\* getCertificate, getCertificate goes on with the item of the response.
statusResponse ==
  /\ poll.pc = "fn"
  /\ poll.kind \in {"wait", "cert"}
  /\ \E resp \in StatusResponses :
       LET r == fnDone([poll EXCEPT !.resp = resp, !.msg = verifyFnError(resp)],
                       verifyFn(resp))
       IN  /\ resp.data.error.present => resp.data.status = "invalid"
           /\ resp.data.certificate # "" => resp.data.status = "valid"
           /\ poll' = IF poll.kind = "cert" /\ r.pc = "resolved"
                        THEN getCertificateDownload(
                               [r EXCEPT !.order = [url |-> "", status |-> resp.data.status,
                                                    certificate |-> resp.data.certificate]])
                        ELSE r
  /\ UNCHANGED <<client, http, api, task, ops, nonces, concurrent, last, run, read>>

\* getCertificate(order) is called.
getCertificate ==
  /\ poll.pc = "idle"
  /\ \E url \in {"", OrderUrl}, status \in {"pending", "valid"},
        certificate \in {"", CertificateUrl},
        backoffAttempts \in BackoffAttemptOptions :
       poll' = ClientGetCertificate(
                 [NoRetry EXCEPT !.kind = "cert", !.attempts = backoffAttempts],
                 [url |-> url, status |-> status, certificate |-> certificate])
  /\ UNCHANGED <<client, http, api, task, ops, nonces, concurrent, last, run, read>>

\* The certificate request is answered: getCertificate returns resp.data.
certificateResponse ==
  /\ poll.pc = "download"
  /\ \E resp \in { [status |-> 200, data |-> "pem"],
                    [status |-> 404, data |-> "problem document"] } :
       poll' = getCertificateReturn(poll, resp)
  /\ UNCHANGED <<client, http, api, task, ops, nonces, concurrent, last, run, read>>

NextRetry ==
  \/ retry
  \/ fnSettles
  \/ delayElapsed
  \/ waitForValidStatus
  \/ statusResponse
  \/ getCertificate
  \/ certificateResponse

SpecRetry == Init /\ [][NextRetry]_vars

\* The Client methods that read a resource: getAuthorizations,
\* waitForValidStatus and getCertificate.
NextReads ==
  \/ \E p \in Procs : getAuthorizations(p) \/ getResponse(p)
  \/ waitForValidStatus
  \/ getCertificate
  \/ statusResponse
  \/ delayElapsed
  \/ certificateResponse

SpecReads == Init /\ [][NextReads]_vars

\* ---- auto mode
\* Client.auto(opts) returns auto(this, opts) of the module ./auto, which is
\* not among the sources; it is modelled as the specification describes it
\* (section 4.4, order flow; section 5, ordering guarantees; section 9, open
\* questions).
\* The order flow of auto: after the account, the order and its
\* authorizations are there, every pending authorization is handled by a
\* chain of its own (select, challengeCreateFn, verify, completeChallenge,
\* poll, challengeRemoveFn), the chains running concurrently; when all are
\* through, the order is polled, finalized, polled and the certificate
\* downloaded.
PriorityOptions == { <<"http-01", "dns-01">>, <<"dns-01", "http-01">>, <<"http-01">> }
OfferedOptions == { {"dns-01"}, {"http-01", "dns-01"} }

\* The authorizations a server may hand out for an order.
AuthorizationOptions ==
  [wildcard : BOOLEAN, status : {"pending", "valid"}, challenges : OfferedOptions]

\* The place of a challenge type in challengePriority (0: not in it).
PriorityOf(challengePriority, type) ==
  IF \E k \in DOMAIN challengePriority : challengePriority[k] = type
    THEN CHOOSE k \in DOMAIN challengePriority :
           /\ challengePriority[k] = type
           /\ \A j \in 1..(k - 1) : challengePriority[j] # type
    ELSE 0

\* The types auto may select for an authorization: the offered type that
\* comes first in challengePriority, for wildcard identifiers as for others.
\* When no offered type is in challengePriority, any offered type or none
\* ("": the chain throws) may come out.
selectChallenge(authz, challengePriority) ==
  LET listed == {t \in authz.challenges : PriorityOf(challengePriority, t) # 0}
  IN  IF listed = {} THEN authz.challenges \cup {""}
      ELSE {t \in listed : \A u \in listed :
              PriorityOf(challengePriority, t) <= PriorityOf(challengePriority, u)}

\* The stages of a chain after the selection, in their order.
NextStage(stage, verify) ==
  IF stage = "create" THEN (IF verify THEN "verify" ELSE "complete")
  ELSE IF stage = "verify" THEN "complete"
  ELSE IF stage = "complete" THEN "poll"
  ELSE "remove"

NoChain ==
  [pc |-> "done", challenge |-> "", created |-> FALSE, removed |-> FALSE,
   failedAt |-> ""]

\* Mutant: a chain whose stage fails throws without cleanup.
chainFail_noCleanup(c) == [c EXCEPT !.pc = "failed", !.failedAt = c.pc]

\* A stage of a chain fails: challengeRemoveFn is invoked, and the error is
\* thrown once that has settled.
chainFail(c) == [c EXCEPT !.pc = "remove", !.removed = TRUE, !.failedAt = c.pc]

\* A stage of a chain succeeds: the next stage begins; after the polling
\* that is the invocation of challengeRemoveFn.
chainNext(c, verify) ==
  LET stage == NextStage(c.pc, verify) IN
  [c EXCEPT !.pc = stage, !.removed = (stage = "remove")]

\* The chain of an authorization begins: nothing to do unless it is pending;
\* else the challenge is selected and challengeCreateFn invoked with it.
chainStart(authz, type) ==
  IF authz.status # "pending" THEN NoChain
  ELSE IF type = "" THEN [NoChain EXCEPT !.pc = "failed", !.failedAt = "select"]
  ELSE [NoChain EXCEPT !.pc = "create", !.challenge = type, !.created = TRUE]

\* Mutant: auto goes on as soon as one chain is through.
fanIn_first(r) ==
  IF r.pc # "authz" THEN r
  ELSE IF \E i \in DOMAIN r.chain : r.chain[i].pc = "done"
    THEN [r EXCEPT !.pc = "ready"]
  ELSE IF \E i \in DOMAIN r.chain : r.chain[i].pc = "failed"
    THEN [r EXCEPT !.pc = "rejected"]
  ELSE r

\* auto settles as far as the chains decide it: it rejects when a chain has
\* thrown, and goes on to poll the order when all chains are through.
fanIn(r) ==
  IF r.pc # "authz" THEN r
  ELSE IF \E i \in DOMAIN r.chain : r.chain[i].pc = "failed"
    THEN [r EXCEPT !.pc = "rejected"]
  ELSE IF \A i \in DOMAIN r.chain : r.chain[i].pc = "done"
    THEN [r EXCEPT !.pc = "ready"]
  ELSE r

\* auto(opts) is called: account, identifiers, newOrder and the GETs of the
\* authorizations are under way.
auto ==
  /\ run.pc = "idle"
  /\ \E challengePriority \in PriorityOptions, verify \in BOOLEAN :
       run' = [NoRun EXCEPT !.pc = "fetch", !.challengePriority = challengePriority,
                            !.verify = verify]
  /\ UNCHANGED <<client, http, api, task, ops, nonces, concurrent, last, poll, read>>

\* The authorizations are there, or one of the steps before has failed; the
\* chain of every authorization begins.
authorizationsFetched ==
  /\ run.pc = "fetch"
  /\ \/ run' = [run EXCEPT !.pc = "rejected"]
     \/ \E n \in 1..MaxAuthorizations :
          \E authorizations \in [1..n -> AuthorizationOptions],
             types \in [1..n -> ChallengeTypes \cup {""}] :
            /\ \A i \in 1..n :
                 types[i] \in selectChallenge(authorizations[i], run.challengePriority)
            /\ run' = fanIn([run EXCEPT
                 !.pc = "authz",
                 !.authorizations = authorizations,
                 !.chain = [i \in 1..n |-> chainStart(authorizations[i], types[i])]])
  /\ UNCHANGED <<client, http, api, task, ops, nonces, concurrent, last, poll, read>>

\* What a chain awaits settles: challengeCreateFn, the verification, the
\* completeChallenge request or the polling of the authorization.
stageSettles ==
  /\ \E i \in DOMAIN run.chain :
       /\ run.chain[i].pc \in {"create", "verify", "complete", "poll"}
       /\ \E ok \in BOOLEAN :
            run' = [run EXCEPT !.chain[i] = IF ok THEN chainNext(@, run.verify)
                                            ELSE chainFail(@)]
  /\ UNCHANGED <<client, http, api, task, ops, nonces, concurrent, last, poll, read>>

\* challengeRemoveFn settles; its own error is logged and dropped.  The chain
\* is through, or throws the error of the stage that failed.
challengeRemoved ==
  /\ \E i \in DOMAIN run.chain :
       /\ run.chain[i].pc = "remove"
       /\ run' = fanIn([run EXCEPT !.chain[i].pc =
                          IF run.chain[i].failedAt = "" THEN "done" ELSE "failed"])
  /\ UNCHANGED <<client, http, api, task, ops, nonces, concurrent, last, poll, read>>

\* A step after the fan-in settles: the order polled until ready, finalize,
\* the order polled until valid, the download.
orderStep ==
  /\ run.pc \in {"ready", "finalize", "valid", "download"}
  /\ \E ok \in BOOLEAN :
       run' = [run EXCEPT !.pc =
                 IF ~ok THEN "rejected"
                 ELSE IF run.pc = "ready" THEN "finalize"
                 ELSE IF run.pc = "finalize" THEN "valid"
                 ELSE IF run.pc = "valid" THEN "download"
                 ELSE "resolved"]
  /\ UNCHANGED <<client, http, api, task, ops, nonces, concurrent, last, poll, read>>

NextAuto ==
  \/ auto
  \/ authorizationsFetched
  \/ stageSettles
  \/ challengeRemoved
  \/ orderStep

SpecAuto == Init /\ [][NextAuto]_vars

\* Every callback and request a chain awaits settles.
FairSpecAuto == SpecAuto /\ WF_vars(NextAuto)

\* ---- crypto backends: reading the domains of a CSR or certificate
MaxAltNames == 2

IsIP(name) == name = "10.0.0.1"
CommonNameOptions == { << >>, <<"example.com">>, <<"Example", "Org">> }
AltNameOptions == {"example.com", "www.example.com", "10.0.0.1"}
AltNamesOptions ==
  UNION { [1..n -> AltNameOptions] : n \in 0..MaxAltNames }

\* The bytes of an IP address, as node-forge holds them.
IpBytes(name) == "0a000001"

\* The object node-forge parses from the PEM: the alt names are in an
\* extension of the certificate, or in the extensionRequest attribute of the
\* CSR; a general name has its type and value, an IP address its bytes as
\* value.
ForgeObject(doc) ==
  LET altNames == [i \in DOMAIN doc.altNames |->
                     IF IsIP(doc.altNames[i])
                       THEN [type |-> 7, value |-> IpBytes(doc.altNames[i])]
                       ELSE [type |-> 2, value |-> doc.altNames[i]]]
      extensions == IF altNames = << >> THEN << >> ELSE << altNames >>
  IN  [ subject |-> doc.commonName,
        extensions |-> IF doc.kind = "cert" THEN extensions ELSE << >>,
        attributes |-> IF doc.kind = "csr" THEN extensions ELSE << >> ]

\* parseDomains of the forge backend: the value of every alt name.
ForgeParseDomains(obj) ==
  LET altNamesDict == IF obj.extensions # << >> THEN obj.extensions[1]
                      ELSE IF obj.attributes # << >> THEN obj.attributes[1]
                      ELSE << >>
  IN  [ done |-> TRUE,
        commonName |-> obj.subject,
        altNames |-> [i \in DOMAIN altNamesDict |-> altNamesDict[i].value] ]

\* What `openssl req|x509 -noout -text` prints of the document: the subject
\* line and the entries of the Subject Alternative Name line.
OpensslText(doc) ==
  [ subjectCN |-> doc.commonName,
    san |-> [i \in DOMAIN doc.altNames |->
               [prefix |-> IF IsIP(doc.altNames[i]) THEN "IP Address:" ELSE "DNS:",
                name |-> doc.altNames[i]]] ]

\* The entries of a list that are DNS names, in their order.
RECURSIVE DnsOnly(_)
DnsOnly(san) ==
  IF san = << >> THEN << >>
  ELSE IF Head(san).prefix = "DNS:" THEN <<Head(san).name>> \o DnsOnly(Tail(san))
  ELSE DnsOnly(Tail(san))

\* parseDomains of the openssl backend: CN up to the first white space (the
\* match of [^\s,;/]+), and the alt names that begin with "DNS:".
OpensslParseDomains(text) ==
  [ done |-> TRUE,
    commonName |-> IF text.subjectCN = << >> THEN << >> ELSE <<Head(text.subjectCN)>>,
    altNames |-> DnsOnly(text.san) ]

\* forge.readCsrDomains / readCertificateInfo(...).domains of the document.
forgeRead ==
  /\ ~read.forge.done
  /\ read' = [read EXCEPT !.forge = ForgeParseDomains(ForgeObject(read.doc))]
  /\ UNCHANGED <<client, http, api, task, ops, nonces, concurrent, last, run, poll>>

\* openssl.readCsrDomains / readCertificateInfo(...).domains of the document.
opensslRead ==
  /\ ~read.openssl.done
  /\ read' = [read EXCEPT !.openssl = OpensslParseDomains(OpensslText(read.doc))]
  /\ UNCHANGED <<client, http, api, task, ops, nonces, concurrent, last, run, poll>>

InitCrypto ==
  /\ Constructed
  /\ concurrent = FALSE
  /\ \E kind \in {"csr", "cert"}, commonName \in CommonNameOptions,
        altNames \in AltNamesOptions :
       read = [NoRead EXCEPT !.doc = [kind |-> kind, commonName |-> commonName,
                                      altNames |-> altNames]]

NextCrypto == forgeRead \/ opensslRead

SpecCrypto == InitCrypto /\ [][NextCrypto]_vars

SpecConcurrent == InitConcurrent /\ [][Next]_vars


\* ------------------------------------------------------------ claims
\* The account URL Client.getAccountUrl() returns ("": it throws).
AccountUrl == getAccountUrl(api[client.api])

Posting(p) == task[p].pc = "post"

IsBadNonce(resp) == resp.status = 400 /\ resp.type = "urn:ietf:params:acme:error:badNonce"

\* C1: every dispatched signed request carries a nonce the server issued to
\* this client, and no nonce is placed in more than one dispatched request.
C1_NonceIssuedAndSingleUse ==
  /\ \A p \in Procs : Posting(p) => task[p].req.protected.nonce \in DOMAIN nonces
  /\ \A n \in DOMAIN nonces : nonces[n].uses <= 1

\* C1 witness: a signed request is in flight and two nonces have been used.
C1_Witness ==
  /\ \E p \in Procs : Posting(p)
  /\ Cardinality({n \in DOMAIN nonces : nonces[n].uses = 1}) >= 2

ExactlyOneOfJwkKid(header) == (header.jwk # NoJwk) # (header.kid # "")

\* C4: the protected header of every signed request sent has alg RS256,
\* exactly one of jwk and kid, and the url the request is sent to; so has
\* the inner body of key rollover, for the url of the request that carries it.
C4_ProtectedHeader ==
  \A p \in Procs : Posting(p) =>
    LET body == task[p].req IN
      /\ body.protected.alg = "RS256"
      /\ ExactlyOneOfJwkKid(body.protected)
      /\ body.protected.url = task[p].url
      /\ body.payload.tag = "jws" =>
           /\ body.payload.jws.protected.alg = "RS256"
           /\ ExactlyOneOfJwkKid(body.payload.jws.protected)
           /\ body.payload.jws.protected.url = task[p].url

\* C4 witness: the keyChange request is in flight: kid outside, jwk inside.
C4_Witness ==
  \E p \in Procs :
    /\ Posting(p)
    /\ task[p].req.protected.kid # ""
    /\ task[p].req.payload.tag = "jws"
    /\ task[p].req.payload.jws.protected.jwk # NoJwk

\* C5: jwk is in the header of newAccount and of the inner body of key
\* rollover only; every other signed request carries kid = the client's
\* account URL.
C5_JwkOrKid ==
  \A p \in Procs : Posting(p) =>
    LET header == task[p].req.protected
        payload == task[p].req.payload IN
      /\ task[p].aop = "newAccount" => header.jwk # NoJwk /\ header.kid = ""
      /\ task[p].aop # "newAccount" =>
           /\ task[p].aop \in {"updateAccount", "keyChange", "newOrder",
                               "updateAuthorization", "completeChallenge",
                               "finalizeOrder", "revokeCert"}
           /\ header.jwk = NoJwk
           /\ header.kid # ""
           /\ header.kid = AccountUrl
      /\ payload.tag = "jws" =>
           payload.jws.protected.jwk # NoJwk /\ payload.jws.protected.kid = ""

\* C5 witness: revokeCert is in flight with the account URL as kid.
C5_Witness ==
  \E p \in Procs :
    /\ Posting(p)
    /\ task[p].aop = "revokeCert"
    /\ task[p].req.protected.kid = ServerAccountUrl

\* C6: every dispatched signed request has a nonce; a newNonce response
\* without Replay-Nonce fails the operation before any signed request.
C6_NonceNotEmpty ==
  /\ \A p \in Procs : Posting(p) => task[p].req.protected.nonce # 0
  /\ (last.resp.to = "newNonce" /\ last.resp.replayNonce = 0) =>
       /\ last.out.res = "err"
       /\ task[last.p].pc = "idle"
       /\ last.was.sends = 0

\* C6 witness: newNonce was answered without the header and the method failed.
C6_Witness ==
  /\ last.resp.to = "newNonce"
  /\ last.resp.replayNonce = 0
  /\ last.out.res = "err"

\* The allow-lists as the claim gives them.
AllowedStatus(aop) ==
  CASE aop = "newAccount" -> {200, 201}
    [] aop = "updateAccount" -> {200, 202}
    [] aop = "keyChange" -> {200}
    [] aop = "newOrder" -> {201}
    [] aop = "getAuthorization" -> {200}
    [] aop = "updateAuthorization" -> {200}
    [] aop = "completeChallenge" -> {200}
    [] aop = "finalizeOrder" -> {200}
    [] aop = "revokeCert" -> {200}
    [] OTHER -> {}

\* C7: an API operation succeeds only on a status of its allow-list; on any
\* other status it fails with an error and returns nothing.
C7_StatusAllowList ==
  last.was.pc \in {"post", "get"} =>
    /\ last.resp.to = last.was.aop
    /\ last.resp.status \notin AllowedStatus(last.was.aop) =>
         /\ last.out = [res |-> "err", from |-> "", url |-> ""]
         /\ task[last.p].pc = "idle"
    /\ last.out.res = "ok" => last.resp.status \in AllowedStatus(last.was.aop)

\* C7 witness: updateAccount was answered 201, outside its list, and failed.
C7_Witness ==
  /\ last.was.pc = "post"
  /\ last.was.aop = "updateAccount"
  /\ last.resp.status = 201
  /\ last.out.res = "err"

\* C8: a 200 or 201 newAccount response with a Location makes that Location
\* the account URL, and getAccountUrl() returns it from then on: the account
\* URL changes only by such a response.
C8_AccountUrlKept ==
  [][ /\ ( /\ last'.resp.to = "newAccount"
           /\ last'.resp.status \in {200, 201}
           /\ last'.resp.location # "" )
         => AccountUrl' = last'.resp.location
      /\ AccountUrl # "" =>
           \/ AccountUrl' = AccountUrl
           \/ /\ last'.resp.to = "newAccount"
              /\ last'.resp.status \in {200, 201}
              /\ AccountUrl' = last'.resp.location ]_vars

\* C8 witness: createAccount ran without an account URL, newAccount answered
\* 201 with a Location, and that is the account URL now.
C8_Witness ==
  /\ last.was.cop = "createAccount"
  /\ ~last.was.hadUrl
  /\ last.resp.to = "newAccount"
  /\ last.resp.status = 201
  /\ last.resp.location # ""
  /\ AccountUrl = last.resp.location

\* C9: createAccount on a client that holds an account URL posts no
\* newAccount; what it posts is updateAccount to that URL, and when that
\* fails the method fails, newAccount still unposted.
C9_CreateWithAccountUrl ==
  /\ \A p \in Procs : (task[p].cop = "createAccount" /\ task[p].hadUrl /\ task[p].pc # "idle") =>
       /\ task[p].aop = "updateAccount"
       /\ task[p].rounds = 0
       /\ task[p].url = AccountUrl
       /\ Posting(p) => task[p].req.protected.url = AccountUrl
  /\ (last.was.cop = "createAccount" /\ last.was.hadUrl) =>
       /\ last.was.rounds = 0
       /\ (last.was.pc = "post" /\ last.resp.status \notin {200, 202}) =>
            last.out.res = "err" /\ task[last.p].pc = "idle"
       /\ last.out.res = "ok" => last.out.from = "updateAccount"

\* C9 witness: createAccount on a client with an account URL, the account
\* update was refused, the method failed.
C9_Witness ==
  /\ last.was.cop = "createAccount"
  /\ last.was.hadUrl
  /\ last.was.pc = "post"
  /\ last.was.aop = "updateAccount"
  /\ last.resp.status = 400
  /\ last.out.res = "err"

\* C10: newAccount answered 200 with a Location is an account found: the
\* method goes on to post updateAccount to that Location and returns what
\* that returns; answered 201, the method returns the new account at once.
C10_ExistingAccountFound ==
  /\ (last.resp.to = "newAccount" /\ last.resp.status = 200 /\ last.resp.location # "") =>
       /\ last.out.res = "none"
       /\ task[last.p].pc = "head"
       /\ task[last.p].aop = "updateAccount"
       /\ task[last.p].url = last.resp.location
       /\ task[last.p].kid = last.resp.location
  /\ \A p \in Procs : (Posting(p) /\ task[p].aop = "updateAccount" /\ task[p].rounds > 0) =>
       /\ task[p].req.protected.url = AccountUrl
       /\ task[p].req.protected.kid = AccountUrl
  /\ (last.was.pc = "post" /\ last.was.aop = "updateAccount" /\ last.was.rounds > 0
      /\ last.resp.status \in {200, 202}) =>
       last.out = [res |-> "ok", from |-> "updateAccount", url |-> ""]
  /\ (last.resp.to = "newAccount" /\ last.resp.status = 201) =>
       /\ last.out = [res |-> "ok", from |-> "newAccount", url |-> ""]
       /\ task[last.p].pc = "idle"

\* C10 witness: after newAccount 200 with Location the account update was
\* posted and answered 200, and the method returned the account.
C10_Witness ==
  /\ last.was.cop = "createAccount"
  /\ last.was.pc = "post"
  /\ last.was.aop = "updateAccount"
  /\ last.was.rounds = 1
  /\ last.resp.status = 200
  /\ last.out.res = "ok"

\* The JWK of an account key, as HttpClient.getJwk reads it from the key.
JwkOf(key) ==
  [ e |-> b64encode(getPublicExponent(key)),
    kty |-> "RSA",
    n |-> b64encode(getModulus(key)) ]

\* The account key of the HttpClient the client holds.
CurrentKey == http[client.http].accountKey

KeyChanging(p) == Posting(p) /\ task[p].aop = "keyChange"

\* C11: in key rollover the inner body is signed by the new key, with the
\* JWK of the new key, the keyChange URL and no kid in its header; the outer
\* request is signed by the old key, with kid = account URL, a nonce, and
\* the inner body as its payload.
C11_KeyChangeBodies ==
  \A p \in Procs : KeyChanging(p) =>
    LET outer == task[p].req
        newKey == task[p].newHttpClient.accountKey IN
      /\ outer.payload.tag = "jws"
      /\ outer.payload.jws.signedBy = newKey
      /\ outer.payload.jws.protected.jwk = JwkOf(newKey)
      /\ outer.payload.jws.protected.url = ResourceUrl(FullDirectory, "keyChange")
      /\ outer.payload.jws.protected.kid = ""
      /\ outer.signedBy = CurrentKey
      /\ outer.protected.kid = AccountUrl
      /\ outer.protected.kid # ""
      /\ outer.protected.jwk = NoJwk
      /\ outer.protected.nonce \in DOMAIN nonces

\* C11 witness: keyChange is in flight, rolling over to another key.
C11_Witness ==
  \E p \in Procs : KeyChanging(p) /\ task[p].newHttpClient.accountKey # CurrentKey

\* The members of a payload object (tag tells the kind of object it is).
Members(payload) == DOMAIN payload \ {"tag"}

\* C12 as claimed: the payload of the inner body is {account, oldKey} and
\* nothing else, account the account URL, oldKey the JWK of the old key.
C12_Original_AccountAndOldKey ==
  \A p \in Procs : KeyChanging(p) =>
    LET data == task[p].req.payload.jws.payload IN
      /\ Members(data) = {"account", "oldKey"}
      /\ data.account = AccountUrl
      /\ data.oldKey = JwkOf(CurrentKey)

\* C12 as amended: called without additional data, the payload of the inner
\* body is {account, oldKey, newKey}: the account URL, the JWK of the old
\* key and the JWK of the new key, and nothing else.
C12_AccountOldKeyNewKey ==
  \A p \in Procs : KeyChanging(p) =>
    LET data == task[p].req.payload.jws.payload IN
      /\ Members(data) = {"account", "oldKey", "newKey"}
      /\ data.account = AccountUrl
      /\ data.oldKey = JwkOf(CurrentKey)
      /\ data.newKey = JwkOf(task[p].newHttpClient.accountKey)

\* C12 witness: keyChange is in flight, the two keys of its payload differ.
C12_Witness ==
  \E p \in Procs :
    /\ KeyChanging(p)
    /\ task[p].req.payload.jws.payload.oldKey # task[p].req.payload.jws.payload.newKey

RolledOver(step) == step.was.cop = "updateAccountKey" /\ step.out.res = "ok"

\* C13: a successful updateAccountKey makes the new key the client's key and
\* leaves the account URL; the key changes in no other way, and every signed
\* request, JWK and key authorization is made with the key the client holds.
C13_NewKeyAfterRollover ==
  [][ /\ RolledOver(last') =>
           /\ CurrentKey' = last'.was.newHttpClient.accountKey
           /\ http'[api'[client'.api].http].accountKey = last'.was.newHttpClient.accountKey
           /\ AccountUrl' = AccountUrl
           /\ AccountUrl' # ""
      /\ CurrentKey' # CurrentKey => RolledOver(last')
      /\ http'[client'.http].jwk \in {NoJwk, JwkOf(CurrentKey')}
      /\ \A p \in Procs : Posting(p)' =>
           /\ task'[p].req.signedBy = CurrentKey'
           /\ task'[p].aop = "newAccount" =>
                task'[p].req.protected.jwk = JwkOf(CurrentKey')
           /\ task'[p].aop # "newAccount" =>
                task'[p].req.protected.kid = AccountUrl'
           /\ task'[p].aop = "completeChallenge" =>
                \E type \in ChallengeTypes, token \in Tokens :
                  task'[p].req.payload.keyAuthorization =
                    getChallengeKeyAuthorization(
                      [NoHttpClient EXCEPT !.accountKey = CurrentKey'],
                      [type |-> type, token |-> token]) ]_vars

\* C13 witness: after a rollover to another key a challenge is completed,
\* its request signed by the new key.
C13_Witness ==
  \E p \in Procs :
    /\ Posting(p)
    /\ task[p].aop = "completeChallenge"
    /\ CurrentKey # InitialKey
    /\ task[p].req.signedBy = CurrentKey

\* A signed request of task p is in flight, from its nonce fetch to its response.
InFlight(p) == task[p].pc \in {"head", "post"}

RECURSIVE SumGets(_)
SumGets(clients) ==
  IF clients = << >> THEN 0 ELSE Head(clients).gets + SumGets(Tail(clients))

\* The directory GETs sent so far by the HttpClients the client holds or has
\* held and by the new HttpClients of running rollovers.
DirectoryGets ==
  SumGets(http) + SumGets([i \in 1..2 |-> task[IF i = 1 THEN "t1" ELSE "t2"].newHttpClient])

Settled(r) == r.pc \in {"resolved", "rejected"}

\* What C17 says of one state of a retry(fn, {attempts}) call.
RetryContract(r) ==
  (r.kind = "fn" /\ r.attempts >= 1) =>
    /\ r.calls >= 1
    /\ r.calls <= r.attempts
    /\ r.pc = "resolved" =>
         /\ r.fn \in {"return", "abortReturn"}
         /\ r.settled = [res |-> "ok", of |-> r.calls]
    /\ r.pc = "rejected" =>
         /\ r.fn \in {"throw", "abortThrow"}
         /\ r.settled = [res |-> "err", of |-> r.calls]
         /\ r.fn = "throw" => r.calls = r.attempts
    /\ r.pc = "delay" => (r.fn = "throw" /\ r.delays = r.calls /\ r.calls < r.attempts)
    /\ r.pc # "delay" => r.delays = r.calls - 1

\* C17: retry with attempts >= 1 invokes fn at least once and at most
\* `attempts` times; it resolves with the result of the first attempt that
\* returns and rejects with the error of the last attempt when all throw;
\* fn is not invoked once retry has settled; a delay is waited only between
\* an attempt that threw and the next attempt.
C17_RetryAttempts ==
  [][ /\ RetryContract(poll')
      /\ Settled(poll) => poll' = poll
      /\ poll'.delays > poll.delays => (poll.pc = "fn" /\ poll'.pc = "delay")
      /\ poll.pc = "delay" => (poll'.pc = "fn" /\ poll'.calls = poll.calls + 1) ]_vars

\* C17 witness: with attempts = 3, two attempts threw and the third returned.
C17_Witness ==
  /\ poll.kind = "fn"
  /\ poll.attempts = 3
  /\ poll.pc = "resolved"
  /\ poll.calls = 3
  /\ poll.delays = 2

\* C18: an attempt that calls the abort signal and throws makes retry reject
\* with that error at once: no delay follows and fn is not invoked again,
\* however many attempts remain.
C18_AbortRejects ==
  [][ /\ poll'.fn = "abortThrow" =>
           /\ poll'.pc = "rejected"
           /\ poll'.settled = [res |-> "err", of |-> poll'.calls]
           /\ poll'.delays = poll'.calls - 1
      /\ poll.fn = "abortThrow" => poll' = poll ]_vars

\* C18 witness: the second of five attempts aborted, and retry is rejected.
C18_Witness ==
  /\ poll.fn = "abortThrow"
  /\ poll.pc = "rejected"
  /\ poll.attempts = DefaultAttempts
  /\ poll.calls = 2

Contains(s, t) ==
  \E i \in 0..(Len(s) - Len(t)) : SubSeq(s, i + 1, i + Len(t)) = t

Polling(r) == r.kind \in {"wait", "cert"}
AnsweredInvalid(r) ==
  Polling(r) /\ r.resp.status = 200 /\ r.resp.data.status = "invalid"

\* C21 as stated: a poll answered invalid rejects with an error whose message
\* contains the error.detail of the response.
C21_Original_ContainsDetail ==
  (AnsweredInvalid(poll) /\ poll.resp.data.error.present) =>
    /\ poll.pc = "rejected"
    /\ Contains(poll.msg, poll.resp.data.error.detail)

\* C21: a poll of waitForValidStatus answered invalid rejects the operation
\* at once with the error of that poll, whose message is the error.detail of
\* the response without its line feeds; no further poll is sent, whatever
\* attempts remain.
C21_InvalidRejects ==
  [][ /\ AnsweredInvalid(poll') =>
           /\ poll'.pc = "rejected"
           /\ poll'.settled = [res |-> "err", of |-> poll'.calls]
           /\ Len(poll'.sent) = poll'.calls
           /\ (poll'.resp.data.error.present /\ poll'.resp.data.error.detail # << >>) =>
                poll'.msg = replaceLF(poll'.resp.data.error.detail)
      /\ AnsweredInvalid(poll) => poll' = poll ]_vars

\* C21 witness: the second of five polls is answered invalid with a detail of
\* two lines, and the operation is rejected with the detail in one line.
C21_Witness ==
  /\ AnsweredInvalid(poll)
  /\ poll.attempts = DefaultBackoffAttempts
  /\ poll.calls = 2
  /\ poll.pc = "rejected"
  /\ poll.resp.data.error.detail = <<"dns lookup", LF, "failed">>
  /\ poll.msg = <<"dns lookup", "failed">>

\* The last poll was answered with a 4xx status, and that answer is handled.
AnsweredErrorStatus(r) ==
  Polling(r) /\ r.resp.status = 400 /\ r.pc # "fn"

\* C22 as stated: a poll answered 4xx is terminal; the operation is aborted
\* and rejected at once.
C22_Original_ErrorStatusTerminal ==
  AnsweredErrorStatus(poll) => (poll.pc = "rejected" /\ poll.aborted)

\* C22: a poll answered 4xx is not terminal: it throws without abort and is
\* polled again after a delay while attempts remain; the operation rejects,
\* with the formatted error of the response, only when the 4xx answers the
\* last attempt.
C22_ErrorStatusRetried ==
  AnsweredErrorStatus(poll) =>
    /\ ~poll.aborted
    /\ poll.fn = "throw"
    /\ poll.msg = formatResponseError(poll.resp)
    /\ IF poll.calls < poll.attempts
         THEN poll.pc = "delay"
         ELSE poll.pc = "rejected" /\ poll.settled = [res |-> "err", of |-> poll.calls]

\* C22 witness: the second of three polls is answered 400 and a third poll
\* is to follow the delay.
C22_Witness ==
  /\ AnsweredErrorStatus(poll)
  /\ poll.attempts = 3
  /\ poll.calls = 2
  /\ poll.pc = "delay"
  /\ poll.resp.data.detail = <<"dns lookup failed">>

\* The requests waitForValidStatus and getCertificate have sent.
Sent == {poll.sent[i] : i \in DOMAIN poll.sent}

\* C23 as stated: an authorization, a polled item and a certificate are read
\* with a signed POST that has the account URL as kid and a nonce.
C23_Original_PostAsGet ==
  /\ \A p \in Procs :
       task[p].pc = "get" =>
         /\ task[p].method = "post"
         /\ task[p].req.protected.kid = AccountUrl
         /\ task[p].req.protected.nonce # 0
  /\ \A r \in Sent :
       /\ r.method = "post"
       /\ r.data.protected.kid = AccountUrl
       /\ r.data.protected.nonce # 0

\* C23: the GET of an authorization, the GET that polls an item and the GET
\* of a certificate are unsigned: method "get", no JWS, no kid, and no nonce
\* is asked for or used.
C23_UnsignedGet ==
  /\ \A p \in Procs :
       task[p].pc = "get" =>
         /\ task[p].aop = "getAuthorization"
         /\ task[p].method = "get"
         /\ task[p].req = NoBody
         /\ task[p].kid = ""
  /\ \A r \in Sent : r.method = "get" /\ r.data = NoBody
  /\ Len(poll.sent) =
       poll.calls + (IF poll.pc = "download" \/ poll.cert.status # 0
                       THEN 1 ELSE 0)
  /\ nonces = << >>

\* C23 witness: the authorizations of an order are being fetched, and
\* getCertificate has polled the order and asked for the certificate.
C23_Witness ==
  /\ \E p \in Procs : task[p].pc = "get" /\ Len(task[p].urls) = MaxAuthorizations
  /\ poll.kind = "cert"
  /\ poll.pc = "download"
  /\ poll.calls = 2
  /\ poll.sent = <<request(OrderUrl, "get"), request(OrderUrl, "get"),
                   request(CertificateUrl, "get")>>

\* C24: getCertificate returns a certificate only when the certificate URL
\* answers 200; for any other status it fails and returns no response body.
C24_CertificateOnly200 ==
  (poll.kind = "cert" /\ poll.cert.status # 0) =>
    IF poll.cert.status = 200
      THEN poll.pc = "resolved" /\ poll.ret = poll.cert.data
      ELSE poll.pc = "rejected" /\ poll.ret = ""

\* getCertificate has sent the request for the certificate.
DownloadSent(r) == r.kind = "cert" /\ Len(r.sent) > r.calls

\* C25: getCertificate requests the certificate only once it holds a valid
\* order, passed in as valid (no poll is sent then) or answered valid by the
\* last poll, and only if that order has a certificate URL, which is the URL
\* requested; when the polling rejects or the valid order has no certificate
\* URL, getCertificate rejects and no certificate request is sent.
C25_DownloadAfterValid ==
  poll.kind = "cert" =>
    /\ DownloadSent(poll) =>
         /\ poll.order.status = "valid"
         /\ poll.order.certificate # ""
         /\ Len(poll.sent) = poll.calls + 1
         /\ poll.sent[Len(poll.sent)] = request(poll.order.certificate, "get")
         /\ \A i \in 1..poll.calls : poll.sent[i].url # poll.order.certificate
         /\ \/ poll.calls = 0
            \/ /\ poll.settled = [res |-> "ok", of |-> poll.calls]
               /\ poll.resp.status = 200
               /\ poll.resp.data.status = "valid"
               /\ poll.resp.data.certificate = poll.order.certificate
    /\ poll.settled.res = "err" => (poll.pc = "rejected" /\ ~DownloadSent(poll))
    /\ (poll.pc \notin {"fn", "delay"} /\ poll.order.status = "valid"
          /\ poll.order.certificate = "") =>
         (poll.pc = "rejected" /\ ~DownloadSent(poll))
    /\ poll.pc \in {"download", "resolved"} => DownloadSent(poll)

\* C25 witness: an order passed in as pending is answered pending, then valid
\* with a certificate URL, and the certificate has been downloaded from it.
C25_Witness ==
  /\ DownloadSent(poll)
  /\ poll.calls = 2
  /\ poll.pc = "resolved"
  /\ poll.cert.status = 200
  /\ poll.sent[3].url = CertificateUrl

\* C26: createOrder resolves only in the step that takes a 201 answer of
\* newOrder with a Location header, and the order it returns has that
\* Location as url; an answer without Location header makes it reject with
\* an Error, whatever the status, and no order is returned.
C26_CreateOrderLocation ==
  last.was.cop = "createOrder" =>
    /\ last.out.res = "ok" =>
         /\ last.was.pc = "post"
         /\ last.resp.to = "newOrder"
         /\ last.resp.status = 201
         /\ last.resp.location # ""
         /\ last.out = [res |-> "ok", from |-> "newOrder", url |-> last.resp.location]
    /\ (last.resp.to = "newOrder" /\ last.resp.location = "") =>
         /\ last.out = [res |-> "err", from |-> "", url |-> ""]
         /\ task[last.p].pc = "idle"
    /\ (last.resp.to = "newOrder" /\ last.resp.status = 201 /\ last.resp.location # "") =>
         last.out.res = "ok"

\* C26 witness: newOrder was answered 201 without a Location header, and
\* createOrder has rejected.
C26_Witness ==
  /\ last.was.cop = "createOrder"
  /\ last.resp.to = "newOrder"
  /\ last.resp.status = 201
  /\ last.resp.location = ""
  /\ last.out.res = "err"

\* C27: getAuthorizations sends the GETs of all URLs of the order before any
\* is answered and resolves only in the step in which the last outstanding
\* one is answered 200: with one entry per URL, in the order of
\* order.authorizations whatever the order of the answers, entry i having
\* url = order.authorizations[i]; with the empty list, at once, for an order
\* without authorizations; and it rejects when any GET is answered otherwise.
C27_GetAuthorizations ==
  /\ \A p \in Procs :
       task[p].pc = "get" =>
         /\ Len(task[p].got) = Len(task[p].urls)
         /\ \E k \in DOMAIN task[p].got : task[p].got[k] = ""
         /\ \A k \in DOMAIN task[p].got : task[p].got[k] \in {"", task[p].urls[k]}
  /\ last.was.cop = "getAuthorizations" =>
       /\ last.out.res = "ok" =>
            /\ last.data = last.was.urls
            /\ last.was.pc = "get" =>
                 /\ last.resp.status = 200
                 /\ Cardinality({k \in DOMAIN last.was.got : last.was.got[k] = ""}) = 1
       /\ (last.was.pc = "get" /\ last.resp.status # 200) => last.out.res = "err"
       /\ (last.was.pc = "idle" /\ last.out.res = "ok") => last.data = << >>
       /\ last.out.res # "ok" => last.data = << >>

\* C27 witness: the GET of the second URL was answered before the GET of the
\* first, and getAuthorizations has resolved with the two in the order of
\* the URLs.
C27_Witness ==
  /\ last.was.cop = "getAuthorizations"
  /\ last.out.res = "ok"
  /\ last.was.got = <<"", AuthorizationUrl(2)>>
  /\ last.data = <<AuthorizationUrl(1), AuthorizationUrl(2)>>

\* ---- key authorizations
\* base64url(SHA-256(JWK(key) serialized with its members in order e, kty, n)).
Thumbprint(key) ==
  <<"b64", <<"sha256", << <<"e", <<"b64", getPublicExponent(key)>> >>,
                          <<"kty", "RSA">>,
                          <<"n", <<"b64", getModulus(key)>> >> >> >> >>

\* What C28 says getChallengeKeyAuthorization returns for a known type.
KeyAuthorization(challenge, key) ==
  LET plain == <<challenge.token, ".", Thumbprint(key)>> IN
  IF challenge.type = "http-01" THEN plain ELSE <<"b64", <<"sha256", plain>> >>

\* completeChallenge has just been called.
ChallengeCalled(step) == step.was.cop = "completeChallenge" /\ step.was.pc = "idle"

\* C28: for every token and account key, completeChallenge called with a
\* challenge of type http-01 computes token "." thumbprint, with a challenge
\* of type dns-01 or tls-alpn-01 the base64url SHA-256 digest of that string,
\* and throws for a challenge of any other type; the value computed is the
\* keyAuthorization member of the payload, which is what the signed request
\* to the challenge URL carries.
C28_KeyAuthorization ==
  [][ /\ ChallengeCalled(last') =>
           LET challenge == last'.was.payload
               t == task'[last'.p]
           IN  /\ challenge.type \notin ChallengeTypes =>
                    (last'.out.res = "err" /\ t.pc = "idle")
               /\ t.pc # "idle" =>
                    /\ challenge.type \in ChallengeTypes
                    /\ t.url = challenge.url
                    /\ t.payload = [tag |-> "keyAuthorization",
                                    keyAuthorization |->
                                      KeyAuthorization(challenge, CurrentKey')]
      /\ \A p \in Procs :
           /\ ( task[p].cop = "completeChallenge" /\ task[p].pc # "idle"
                /\ task'[p].pc # "idle" ) =>
                (task'[p].payload = task[p].payload /\ task'[p].url = task[p].url)
           /\ (Posting(p)' /\ task'[p].cop = "completeChallenge") =>
                /\ task'[p].req.payload = task'[p].payload
                /\ task'[p].req.protected.url = task'[p].url ]_vars

\* C28 witness: after a rollover to the second key, the digest for a dns-01
\* challenge with the second token is posted.
C28_Witness ==
  \E p \in Procs :
    /\ Posting(p)
    /\ task[p].cop = "completeChallenge"
    /\ CurrentKey = "key2"
    /\ task[p].req.payload.keyAuthorization =
         KeyAuthorization([type |-> "dns-01", token |-> "token2"], "key2")

\* ---- auto mode
ChainOf(i) == IF i \in DOMAIN run.chain THEN run.chain[i] ELSE NoChain

\* C29: in auto mode challengeRemoveFn is invoked for every authorization
\* for which challengeCreateFn was invoked, in every execution: whichever
\* stage of the chain fails (challengeCreateFn itself, the verification,
\* completeChallenge, the polling) and whether or not auto has already
\* rejected because of another authorization; no chain is through or throws
\* before its challengeRemoveFn was invoked, so the steps after the fan-in
\* begin only after all of them were.
C29_RemoveAfterCreate ==
  /\ [](\A i \in 1..MaxAuthorizations :
          /\ ChainOf(i).removed => ChainOf(i).created
          /\ (ChainOf(i).created /\ ChainOf(i).pc \in {"done", "failed"}) =>
               ChainOf(i).removed
          /\ (ChainOf(i).created /\ run.pc \in {"ready", "finalize", "valid",
                                                "download", "resolved"}) =>
               ChainOf(i).removed)
  /\ \A i \in 1..MaxAuthorizations :
       ChainOf(i).created ~> ChainOf(i).removed

\* C29 witness: the polling of an authorization failed after its challenge
\* was created, challengeRemoveFn ran, and auto is rejected.
C29_Witness ==
  /\ run.pc = "rejected"
  /\ \E i \in DOMAIN run.chain :
       /\ run.chain[i].created
       /\ run.chain[i].failedAt = "poll"
       /\ run.chain[i].removed
       /\ run.chain[i].pc = "failed"

\* C30: in auto mode the challenge selected for an authorization of a
\* wildcard identifier is dns-01 whatever challengePriority is; for another
\* identifier it is the offered challenge whose type comes first in
\* challengePriority.
C30_WildcardDns01 ==
  \A i \in DOMAIN run.chain :
    run.chain[i].challenge # "" =>
      IF run.authorizations[i].wildcard
        THEN run.chain[i].challenge = "dns-01"
        ELSE \A t \in run.authorizations[i].challenges :
               PriorityOf(run.challengePriority, t) # 0 =>
                 /\ PriorityOf(run.challengePriority, run.chain[i].challenge) # 0
                 /\ PriorityOf(run.challengePriority, run.chain[i].challenge)
                      <= PriorityOf(run.challengePriority, t)

\* The finalize request of auto has been posted.
FinalizePosted(r) == r.pc \in {"finalize", "valid", "download", "resolved"}

C32_RetrieveAccount ==
  /\ (last.was.cop = "retrieveAccount" /\ last.was.pc = "idle") =>
       /\ last.out.res # "err"
       /\ task[last.p].aop = "newAccount"
  /\ (last.was.cop = "retrieveAccount" /\ last.out.res = "ok") =>
       last.out.from = "newAccount"

\* ---- crypto backends
\* C33: for every CSR and certificate the forge backend and the openssl
\* backend read the same commonName and the same altNames in the same order.
C33_BackendsAgree ==
  (read.forge.done /\ read.openssl.done) =>
    /\ read.forge.commonName = read.openssl.commonName
    /\ read.forge.altNames = read.openssl.altNames

\* ---- no account URL
NeedAccountUrl ==
  { "getAccountUrl", "createOrder", "finalizeOrder", "completeChallenge",
    "deactivateAuthorization", "revokeCertificate", "updateAccountKey" }

\* C34: on a client with no account URL, getAccountUrl, createOrder,
\* finalizeOrder, completeChallenge, deactivateAuthorization,
\* revokeCertificate and updateAccountKey fail with an error, and none of
\* them fetches a nonce or sends a signed request.
C34_NoAccountUrlFails ==
  /\ \A p \in Procs :
       (task[p].cop \in NeedAccountUrl /\ AccountUrl = "") =>
         /\ task[p].pc \notin {"head", "post"}
         /\ task[p].stage # "nonce"
         /\ task[p].sends = 0
  /\ (last.was.cop \in NeedAccountUrl /\ AccountUrl = "") =>
       /\ last.resp.to \in {"", "directory"}
       /\ last.out.res # "ok"
       /\ task[last.p].pc = "idle" => last.out.res = "err"

\* C34 witness: createOrder on a client with no account URL fetched the
\* directory, found the newOrder URL and failed for want of the account URL.
C34_Witness ==
  /\ last.was.cop = "createOrder"
  /\ last.was.pc = "dir"
  /\ last.resp.status = 200
  /\ AccountUrl = ""
  /\ last.out.res = "err"

\* ---- a failed key rollover
\* C35: a step of updateAccountKey other than its successful return (so
\* every step of a call that fails: at the directory, at the nonce, or at a
\* keyChange response whose status is not 200) leaves this.http, this.api,
\* the account key and the account URL as they were; and as long as no
\* updateAccountKey has succeeded every signed request is signed with the
\* key the client was constructed with.
C35_FailedRolloverKeepsKey ==
  [][ /\ (last'.was.cop = "updateAccountKey" /\ last'.out.res # "ok") =>
           /\ client' = client
           /\ Len(http') = Len(http)
           /\ Len(api') = Len(api)
           /\ http'[client.http].accountKey = http[client.http].accountKey
           /\ api'[client.api].accountUrl = api[client.api].accountUrl
      /\ \A p \in Procs :
           (task'[p].pc = "post" /\ Len(http') = 1) =>
             task'[p].req.signedBy = InitialKey ]_vars

\* C35 witness: keyChange was answered with a status other than 200 and
\* updateAccountKey failed.
C35_Witness ==
  /\ last.was.cop = "updateAccountKey"
  /\ last.was.aop = "keyChange"
  /\ last.was.pc = "post"
  /\ last.resp.status # 200
  /\ last.out.res = "err"
  /\ client = [http |-> 1, api |-> 1]

\* ---- createAccount and updateAccount delegate to each other
\* C36: a call of createAccount or updateAccount sends at most one newAccount
\* request (rounds counts them), whatever the server answers, also when
\* newAccount answers 200 without a Location header.
C36_OneNewAccount ==
  \A p \in Procs :
    task[p].cop \in {"createAccount", "updateAccount"} => task[p].rounds <= 1

\* ---- newAccount refused
\* C37: when newAccount is answered with a status outside {200, 201},
\* createAccount rejects and the account URL of the client is still unset,
\* also when the response carries a Location header.
C37_RefusedNewAccount ==
  ( /\ last.was.pc = "post"
    /\ last.was.aop = "newAccount"
    /\ last.resp.status \notin {200, 201} ) =>
      /\ last.out = [res |-> "err", from |-> "", url |-> ""]
      /\ task[last.p].pc = "idle"
      /\ AccountUrl = ""
      /\ \A a \in DOMAIN api : api[a].accountUrl = ""

\* C37 witness: newAccount was refused with a Location header.
C37_Witness ==
  /\ last.was.pc = "post"
  /\ last.was.aop = "newAccount"
  /\ last.resp.status \notin {200, 201}
  /\ last.resp.location = ServerAccountUrl
  /\ last.out.res = "err"

\* ---- polling an order that is ready
\* The last status GET of waitForValidStatus was answered 200 with an item
\* of one of the statuses, and verifyFn has dealt with the answer.
Observed(statuses) ==
  /\ poll.kind = "wait"
  /\ poll.attempts >= 1
  /\ poll.pc \notin {"idle", "fn"}
  /\ poll.resp.status = 200
  /\ poll.resp.data.status \in statuses

C39_DirectoryFromSuccessOnly ==
  ( /\ last.was.pc = "dir"
    /\ last.was.hx # 0
    /\ last.resp.to = "directory"
    /\ last.resp.status # 200 ) =>
      http[last.was.hx].directory = NoDirectory

====
